---- MODULE Spec2Model ----
(***************************************************************************)
(* ConversationMemory of src/agent.py: the conversation history, the log   *)
(* of summaries, the context assembled for an API call, the compression of *)
(* older turns by an external summarizer, and persistence with pickle.     *)
(*                                                                         *)
(* A Python str is a TLA+ string, a Python list a sequence, a Python dict  *)
(* with string keys a function from strings (a Turn is the record          *)
(* [role |-> r, content |-> c]).                                           *)
(***************************************************************************)
EXTENDS Integers, Sequences, FiniteSets, TLC

VARIABLES
    max_recent_messages,  \* self.max_recent_messages, set by __init__
    full_history,         \* self.full_history: the list of Turns
    summaries,            \* self.summaries: the list of summary texts
    file,                 \* conversation_memory.pkl: [exists, bytes, readable]
    op,                   \* the method that ran last, with its outcome
    ret,                  \* what that call returned
    raised,               \* the exception that call raised, or None
    anchor,               \* history variable: the first two Turns before the
                          \* first compression of this conversation, and the
                          \* number of compressions since
    saved,                \* history variable: the state the last save wrote
    chat                  \* what the last call did, when it was a call of
                          \* chat_with_claude: the length of the history when
                          \* the user's message was recorded, the outcome of
                          \* the compression and the context it sent

vars ==
    <<max_recent_messages, full_history, summaries, file, op, ret, raised,
      anchor, saved, chat>>

---------------------------------------------------------------------------
(* Bounds of the model and the inputs the environment may give.            *)

\* max_recent_messages is drawn from 1 .. MaxRecent
MaxRecent == 3
\* the Turns of one conversation are numbered 1 .. MaxMessages
MaxMessages == 7
\* the Turns one conversation records through chat_with_claude are numbered
\* 1 .. MaxChatTurns
MaxChatTurns == 18
\* where the file is tampered with, at most MaxSummaries summaries are made
MaxSummaries == 1

MessageIds == 1 .. MaxMessages
SummaryTexts == {"s1", "s2"}

None == "None"

---------------------------------------------------------------------------
(* Python list slicing.                                                    *)

Min(a, b) == IF a <= b THEN a ELSE b
Max(a, b) == IF a >= b THEN a ELSE b

\* a slice index clamped as list.__getitem__ does: negative counts from the end
SliceIndex(i, n) == IF i < 0 THEN Max(n + i, 0) ELSE Min(i, n)

\* lst[lo:hi]
Slice(lst, lo, hi) ==
    SubSeq(lst, SliceIndex(lo, Len(lst)) + 1, SliceIndex(hi, Len(lst)))

\* lst[lo:]
SliceFrom(lst, lo) == SubSeq(lst, SliceIndex(lo, Len(lst)) + 1, Len(lst))

\* lst[:hi]
SliceTo(lst, hi) == SubSeq(lst, 1, SliceIndex(hi, Len(lst)))

Last(lst) == lst[Len(lst)]

Turn(role, content) == [role |-> role, content |-> content]

---------------------------------------------------------------------------
(* get_context_for_api                                                     *)

\* f"Previous conversation summary:\n{summary}"
SummaryContent(summary) ==
    CASE summary = "s1" -> "Previous conversation summary:\ns1"
      [] summary = "s2" -> "Previous conversation summary:\ns2"
      [] OTHER -> "Previous conversation summary:\n"

SummaryTurn(summary) == Turn("user", SummaryContent(summary))

AckTurn == Turn("assistant", "I remember our previous conversation.")

\* a mutant: the window ends one Turn before the end of the history
Recent_Older(h, m) == Slice(h, -m - 1, -1)

\* recent = self.full_history[-self.max_recent_messages:]
Recent(h, m) == SliceFrom(h, -m)

\* a mutant: the context is extended with the whole history
Context_WholeHistory(h, s, m) ==
    IF Len(h) <= m
    THEN h
    ELSE (IF s # <<>> THEN <<SummaryTurn(Last(s)), AckTurn>> ELSE <<>>) \o h

\* a mutant: a short history is not returned as it is
Context_NoShortCut(h, s, m) ==
    (IF s # <<>> THEN <<SummaryTurn(Last(s)), AckTurn>> ELSE <<>>)
    \o Recent(h, m)

\* a mutant: the first summary of the log is taken, self.summaries[0]
Context_FirstSummary(h, s, m) ==
    IF Len(h) <= m
    THEN h
    ELSE (IF s # <<>> THEN <<SummaryTurn(s[1]), AckTurn>> ELSE <<>>)
         \o Recent(h, m)

\* a mutant: the summary Turn is not followed by the acknowledgement
Context_NoAck(h, s, m) ==
    IF Len(h) <= m
    THEN h
    ELSE (IF s # <<>> THEN <<SummaryTurn(Last(s))>> ELSE <<>>) \o Recent(h, m)

\* the list get_context_for_api returns for history h, summaries s, window m
Context(h, s, m) ==
    IF Len(h) <= m
    THEN h
    ELSE (IF s # <<>> THEN <<SummaryTurn(Last(s)), AckTurn>> ELSE <<>>)
         \o Recent(h, m)

---------------------------------------------------------------------------
(* summarize_old_conversations                                             *)

\* to_summarize = self.full_history[2:-self.max_recent_messages]
ToSummarize(h, m) == Slice(h, 2, -m)

\* a mutant: the Turns after the anchor are kept, not the newest ones
Compressed_Oldest(h, m) == SliceTo(h, 2) \o Slice(h, 2, 2 + m)

\* a mutant: the newest Turns are kept and the anchor is not
Compressed_NoAnchor(h, m) == SliceFrom(h, -(m + 2))

\* self.full_history[:2] + self.full_history[-self.max_recent_messages:]
Compressed(h, m) == SliceTo(h, 2) \o SliceFrom(h, -m)

\* a mutant: the second early return is missing
ReturnsEarly_OnlyShort(h, m) == Len(h) <= m + 2

\* a mutant: the second early return is taken only for an empty slice
ReturnsEarly_EmptySlice(h, m) == Len(h) <= m + 2 \/ Len(ToSummarize(h, m)) < 1

\* the two early returns: nothing, or a single Turn, to summarize
ReturnsEarly(h, m) == Len(h) <= m + 2 \/ Len(ToSummarize(h, m)) < 2

---------------------------------------------------------------------------
(* pickle: the byte stream as a sequence of <<opcode, argument>>, read     *)
(* back by the unpickler's stack machine.  Opcodes: "}" EMPTY_DICT,        *)
(* "]" EMPTY_LIST, "(" MARK, "X" a str, "a" APPEND, "e" APPENDS,           *)
(* "s" SETITEM, "u" SETITEMS, "." STOP.  The memo and the framing are left  *)
(* out.                                                                    *)

Opcode(c) == << <<c, "">> >>
PickleStr(x) == << <<"X", x>> >>

PickleTurn(t) ==
    Opcode("}") \o Opcode("(")
    \o PickleStr("role") \o PickleStr(t.role)
    \o PickleStr("content") \o PickleStr(t.content)
    \o Opcode("u")

RECURSIVE PickleTurns(_)
PickleTurns(lst) ==
    IF lst = <<>> THEN <<>> ELSE PickleTurn(Head(lst)) \o PickleTurns(Tail(lst))

RECURSIVE PickleStrs(_)
PickleStrs(lst) ==
    IF lst = <<>> THEN <<>> ELSE PickleStr(Head(lst)) \o PickleStrs(Tail(lst))

\* a list: empty, of one item (APPEND), of several (MARK ... APPENDS)
PickleList(n, items) ==
    CASE n = 0 -> Opcode("]")
      [] n = 1 -> Opcode("]") \o items \o Opcode("a")
      [] OTHER -> Opcode("]") \o Opcode("(") \o items \o Opcode("e")

\* pickle.dump({'full_history': h, 'summaries': s}, f)
Pickle(h, s) ==
    Opcode("}") \o Opcode("(")
    \o PickleStr("full_history") \o PickleList(Len(h), PickleTurns(h))
    \o PickleStr("summaries") \o PickleList(Len(s), PickleStrs(s))
    \o Opcode("u") \o Opcode(".")

\* pickle.dump of a dict with one key (SETITEM), and of the empty dict
PickleOne(key, value) ==
    Opcode("}") \o PickleStr(key) \o value \o Opcode("s") \o Opcode(".")
PickleNone == Opcode("}") \o Opcode(".")

EmptyDict == [k \in {} |-> ""]

\* dict.__setitem__ for each key, value pair of kv = <<k1, v1, k2, v2, ...>>
RECURSIVE SetItems(_, _)
SetItems(d, kv) ==
    IF Len(kv) < 2 THEN d
    ELSE SetItems([k \in DOMAIN d \cup {kv[1]} |->
                      IF k = kv[1] THEN kv[2] ELSE d[k]],
                  SubSeq(kv, 3, Len(kv)))

\* what pickle.load gives: the object, or the exception it raises
Loaded(value) == [error |-> None, value |-> value]
LoadError(name) == [error |-> name, value |-> <<>>]

\* the unpickler: toks[i] is the next opcode, stack the value stack, marks the
\* stack heights at the open MARKs; the input ending before STOP is EOFError
RECURSIVE Unpickler(_, _, _, _)
Unpickler(toks, i, stack, marks) ==
    IF i > Len(toks) THEN LoadError("EOFError")
    ELSE
    LET c     == toks[i][1]
        n     == Len(stack)
        k     == Last(marks)
        above == SubSeq(stack, k + 1, n)
        below == SubSeq(stack, 1, k - 1)
        rest  == SubSeq(marks, 1, Len(marks) - 1)
    IN  CASE c = "." -> Loaded(stack[n])
          [] c = "X" -> Unpickler(toks, i + 1, Append(stack, toks[i][2]), marks)
          [] c = "}" -> Unpickler(toks, i + 1, Append(stack, EmptyDict), marks)
          [] c = "]" -> Unpickler(toks, i + 1, Append(stack, <<>>), marks)
          [] c = "(" -> Unpickler(toks, i + 1, stack, Append(marks, n))
          [] c = "a" -> Unpickler(toks, i + 1,
                            SubSeq(stack, 1, n - 2)
                                \o <<Append(stack[n - 1], stack[n])>>,
                            marks)
          [] c = "e" -> Unpickler(toks, i + 1,
                            below \o <<stack[k] \o above>>, rest)
          [] c = "s" -> Unpickler(toks, i + 1,
                            SubSeq(stack, 1, n - 3)
                                \o <<SetItems(stack[n - 2],
                                              <<stack[n - 1], stack[n]>>)>>,
                            marks)
          [] c = "u" -> Unpickler(toks, i + 1,
                            below \o <<SetItems(stack[k], above)>>, rest)

\* pickle.load(f): the exception it raises, or None
UnpickleError(bytes) == Unpickler(bytes, 1, <<>>, <<>>).error

\* pickle.load(f): the object, when it raises nothing
Unpickle(bytes) == Unpickler(bytes, 1, <<>>, <<>>).value

NoFile == [exists |-> FALSE, bytes |-> <<>>, readable |-> TRUE]

---------------------------------------------------------------------------
(* The state after ConversationMemory(max_recent_messages), before any     *)
(* file was written.                                                       *)

NoAnchor == [turns |-> <<>>, passes |-> 0]
\* what a call of summarize_old_conversations did
Skipped == "summarize_old_conversations: skipped"
Summarized == "summarize_old_conversations: summarized"
Failed == "summarize_old_conversations: failed"
SummarizeOutcomes == {Skipped, Summarized, Failed}
NoChat == [recorded |-> 0, compression |-> None, context |-> <<>>]
Snapshot(h, s) == [full_history |-> h, summaries |-> s]

Init ==
    /\ max_recent_messages \in 1 .. MaxRecent
    /\ full_history = <<>>
    /\ summaries = <<>>
    /\ file = NoFile
    /\ op = "__init__"
    /\ ret = None
    /\ raised = None
    /\ anchor = NoAnchor
    /\ saved = Snapshot(<<>>, <<>>)
    /\ chat = NoChat

\* the call returns value
Returns(name, value) ==
    op' = name /\ ret' = value /\ raised' = None /\ chat' = NoChat

\* The Turns given to add_message.  No method reads the role or the content
\* of a Turn to decide what it does, so the k-th Turn of a conversation is
\* given the content "k" (and the roles alternate): every Turn of a history
\* is then distinct and a Turn that is moved, dropped or repeated shows.
MessageRole(k) == IF k % 2 = 1 THEN "user" ELSE "assistant"
MessageContent(k) == ToString(k)

\* the number of the last Turn of history h (0 when h is empty)
LastMessageId(h) ==
    IF h = <<>> THEN 0
    ELSE CHOOSE k \in MessageIds : MessageContent(k) = Last(h).content

\* a mutant: the Turn is inserted at the front
Appended_AtFront(h, role, content) == <<Turn(role, content)>> \o h

\* self.full_history.append({"role": role, "content": content})
Appended(h, role, content) == Append(h, Turn(role, content))

add_message ==
    /\ \E k \in MessageIds :
           /\ k = LastMessageId(full_history) + 1
           /\ full_history' =
                  Appended(full_history, MessageRole(k), MessageContent(k))
    /\ Returns("add_message", None)
    /\ UNCHANGED <<max_recent_messages, summaries, file, anchor, saved>>

get_context_for_api ==
    /\ Returns("get_context_for_api",
               Context(full_history, summaries, max_recent_messages))
    /\ UNCHANGED <<max_recent_messages, full_history, summaries, file, anchor,
                   saved>>

\* one of the two early returns is taken: the summarizer is not called
SummarizeSkipped ==
    /\ ReturnsEarly(full_history, max_recent_messages)
    /\ Returns("summarize_old_conversations: skipped", None)
    /\ UNCHANGED <<max_recent_messages, full_history, summaries, file, anchor,
                   saved>>

\* the history variable after a compression of history h
Anchored(h) ==
    [turns  |-> IF anchor.passes = 0 THEN SubSeq(h, 1, 2) ELSE anchor.turns,
     passes |-> anchor.passes + 1]

\* a mutant: the new summary replaces the log
SummarizeDone_Replaces ==
    /\ ~ReturnsEarly(full_history, max_recent_messages)
    /\ \E summary \in SummaryTexts : summaries' = <<summary>>
    /\ full_history' = Compressed(full_history, max_recent_messages)
    /\ anchor' = Anchored(full_history)
    /\ Returns("summarize_old_conversations: summarized", None)
    /\ UNCHANGED <<max_recent_messages, file, saved>>

\* client.messages.create returns a summary
SummarizeDone ==
    /\ ~ReturnsEarly(full_history, max_recent_messages)
    /\ \E summary \in SummaryTexts : summaries' = Append(summaries, summary)
    /\ full_history' = Compressed(full_history, max_recent_messages)
    /\ anchor' = Anchored(full_history)
    /\ Returns("summarize_old_conversations: summarized", None)
    /\ UNCHANGED <<max_recent_messages, file, saved>>

\* a mutant: the history is cut before the summarizer is called
SummarizeFailed_CutFirst ==
    /\ ~ReturnsEarly(full_history, max_recent_messages)
    /\ full_history' = Compressed(full_history, max_recent_messages)
    /\ Returns("summarize_old_conversations: failed", None)
    /\ UNCHANGED <<max_recent_messages, summaries, file, anchor, saved>>

\* client.messages.create, or reading its response, raises: the except
\* clause prints a note and the method returns
SummarizeFailed ==
    /\ ~ReturnsEarly(full_history, max_recent_messages)
    /\ Returns("summarize_old_conversations: failed", None)
    /\ UNCHANGED <<max_recent_messages, full_history, summaries, file, anchor,
                   saved>>

summarize_old_conversations ==
    SummarizeSkipped \/ SummarizeDone \/ SummarizeFailed

clear ==
    /\ full_history' = <<>>
    /\ summaries' = <<>>
    /\ anchor' = NoAnchor
    /\ Returns("clear", None)
    /\ UNCHANGED <<max_recent_messages, file, saved>>

save ==
    /\ file' = [exists |-> TRUE, bytes |-> Pickle(full_history, summaries),
                readable |-> file.readable]
    /\ saved' = Snapshot(full_history, summaries)
    /\ Returns("save", None)
    /\ UNCHANGED <<max_recent_messages, full_history, summaries, anchor>>

\* open(filepath, 'rb') succeeds
Opens(f) == f.exists /\ f.readable

\* a mutant: the loaded lists are added to the ones in memory
LoadFound_Extends ==
    /\ Opens(file)
    /\ UnpickleError(file.bytes) = None
    /\ {"full_history", "summaries"} \subseteq DOMAIN Unpickle(file.bytes)
    /\ LET data == Unpickle(file.bytes)
       IN  /\ full_history' = full_history \o data["full_history"]
           /\ summaries' = summaries \o data["summaries"]
    /\ anchor' = NoAnchor
    /\ Returns("load", TRUE)
    /\ UNCHANGED <<max_recent_messages, file, saved>>

\* open() finds the file: the two attributes are assigned from the loaded dict
LoadFound ==
    /\ Opens(file)
    /\ UnpickleError(file.bytes) = None
    /\ {"full_history", "summaries"} \subseteq DOMAIN Unpickle(file.bytes)
    /\ LET data == Unpickle(file.bytes)
       IN  /\ full_history' = data["full_history"]
           /\ summaries' = data["summaries"]
    /\ anchor' = NoAnchor
    /\ Returns("load", TRUE)
    /\ UNCHANGED <<max_recent_messages, file, saved>>

\* open() raises FileNotFoundError
LoadNotFound ==
    /\ ~file.exists
    /\ Returns("load", FALSE)
    /\ UNCHANGED <<max_recent_messages, full_history, summaries, file, anchor,
                   saved>>

load == LoadFound \/ LoadNotFound

\* the process ends and a new one constructs ConversationMemory(m): the
\* file on disk is all that is left of the old one
NewConversationMemory ==
    /\ max_recent_messages' \in 1 .. MaxRecent
    /\ full_history' = <<>>
    /\ summaries' = <<>>
    /\ anchor' = NoAnchor
    /\ Returns("__init__", None)
    /\ UNCHANGED <<file, saved>>

Next ==
    \/ add_message
    \/ get_context_for_api
    \/ summarize_old_conversations
    \/ clear
    \/ save
    \/ load
    \/ NewConversationMemory

Spec == Init /\ [][Next]_vars

---------------------------------------------------------------------------
(* The file in the hands of others: its permissions change, it is cut      *)
(* short, or it is written by a program that stores only some of the keys. *)
(* load then meets what Spec never shows it.                               *)

\* the call raises exception name
Raises(name, exception) ==
    op' = name /\ ret' = None /\ raised' = exception /\ chat' = NoChat

\* the file holds a dict with both keys
Complete(f) ==
    /\ UnpickleError(f.bytes) = None
    /\ {"full_history", "summaries"} \subseteq DOMAIN Unpickle(f.bytes)

\* chmod: the read permission is taken away, or given back
FilePermissionChanged ==
    /\ file.exists
    /\ file' = [file EXCEPT !.readable = ~file.readable]
    /\ UNCHANGED <<max_recent_messages, full_history, summaries, op, ret,
                   raised, anchor, saved, chat>>

\* the file is cut: to nothing, or just before STOP
FileTruncated ==
    /\ file.exists
    /\ Complete(file)
    /\ \E n \in {0, Len(file.bytes) - 1} :
           file' = [file EXCEPT !.bytes = SubSeq(file.bytes, 1, n)]
    /\ UNCHANGED <<max_recent_messages, full_history, summaries, op, ret,
                   raised, anchor, saved, chat>>

\* the file is rewritten with one of its keys, or none
FileLosesKeys ==
    /\ file.exists
    /\ Complete(file)
    /\ LET data == Unpickle(file.bytes)
           h    == data["full_history"]
           s    == data["summaries"]
       IN  \E bytes \in
               { PickleOne("full_history", PickleList(Len(h), PickleTurns(h))),
                 PickleOne("summaries", PickleList(Len(s), PickleStrs(s))),
                 PickleNone } :
               file' = [file EXCEPT !.bytes = bytes]
    /\ UNCHANGED <<max_recent_messages, full_history, summaries, op, ret,
                   raised, anchor, saved, chat>>

\* open() raises PermissionError, which load does not catch
LoadDenied ==
    /\ file.exists
    /\ ~file.readable
    /\ Raises("load", "PermissionError")
    /\ UNCHANGED <<max_recent_messages, full_history, summaries, file, anchor,
                   saved>>

\* pickle.load raises, before either attribute is assigned
LoadUnpickleFails ==
    /\ Opens(file)
    /\ UnpickleError(file.bytes) # None
    /\ Raises("load", UnpickleError(file.bytes))
    /\ UNCHANGED <<max_recent_messages, full_history, summaries, file, anchor,
                   saved>>

\* data['full_history'] raises KeyError: nothing was assigned
LoadNoHistory ==
    /\ Opens(file)
    /\ UnpickleError(file.bytes) = None
    /\ "full_history" \notin DOMAIN Unpickle(file.bytes)
    /\ Raises("load", "KeyError")
    /\ UNCHANGED <<max_recent_messages, full_history, summaries, file, anchor,
                   saved>>

\* data['summaries'] raises KeyError: self.full_history was assigned already
LoadNoSummaries ==
    /\ Opens(file)
    /\ UnpickleError(file.bytes) = None
    /\ "full_history" \in DOMAIN Unpickle(file.bytes)
    /\ "summaries" \notin DOMAIN Unpickle(file.bytes)
    /\ full_history' = Unpickle(file.bytes)["full_history"]
    /\ anchor' = NoAnchor
    /\ Raises("load", "KeyError")
    /\ UNCHANGED <<max_recent_messages, summaries, file, saved>>

\* the summaries kept while the file is tampered with are capped
StoreSummarize ==
    /\ Len(summaries) < MaxSummaries
    /\ summarize_old_conversations

StoreNext ==
    \/ add_message
    \/ StoreSummarize
    \/ save
    \/ load
    \/ FilePermissionChanged
    \/ FileTruncated
    \/ FileLosesKeys
    \/ LoadDenied
    \/ LoadUnpickleFails
    \/ LoadNoHistory
    \/ LoadNoSummaries

StoreSpec == Init /\ [][StoreNext]_vars

---------------------------------------------------------------------------
(* The chat loop: chat_with_claude and the clear command on a memory that  *)
(* starts empty.  One call of chat_with_claude is one step; its completion *)
(* call and, when it is made, its summarizer call each succeed or fail.    *)

\* if len(memory.full_history) > 12
CompressionThreshold == 12

\* max_recent_messages = 4 in the program; 1 and 10 stand for small and large
ChatRecent == {1, 4, 10}

ChatIds == 1 .. MaxChatTurns

\* the first exchange: the system prompt with the report data, and the
\* canned acknowledgement
PrimingTurn == Turn("user", "system_prompt, Business Report Data: csv_data")
PrimingAck ==
    Turn("assistant",
         "I understand. I have the Ecocutlery business report data loaded.")

\* the number of the last Turn a conversation recorded after its priming
LastChatId(h) ==
    IF h = <<>> \/ Last(h) = PrimingAck THEN 0
    ELSE CHOOSE k \in ChatIds : MessageContent(k) = Last(h).content

\* a mutant: only the user Turn of the priming exchange is recorded
Primed_UserOnly(h) == IF Len(h) = 0 THEN <<PrimingTurn>> ELSE h

\* if len(memory.full_history) == 0: the priming exchange is recorded
Primed(h) == IF Len(h) = 0 THEN <<PrimingTurn, PrimingAck>> ELSE h

\* memory.add_message("user", message), after the priming
Recorded(h, message) == Appended(Primed(h), "user", message)

\* a mutant: compression starts at the threshold
Triggered_AtThreshold(h) == Len(h) >= CompressionThreshold

\* a mutant: compression starts two Turns later
Triggered_Late(h) == Len(h) > CompressionThreshold + 2

\* if len(memory.full_history) > 12
Triggered(h) == Len(h) > CompressionThreshold

\* what memory.summarize_old_conversations did in the call, if it was called
Compressions(h, m) ==
    IF ~Triggered(h) THEN {None}
    ELSE IF ReturnsEarly(h, m) THEN {Skipped}
    ELSE {Summarized, Failed}

\* the history and the summaries after the compression step
ChatHistory(h, m, compression) ==
    IF compression = Summarized THEN Compressed(h, m) ELSE h
ChatSummaries(s, compression, summary) ==
    IF compression = Summarized THEN Append(s, summary) ELSE s

\* one call up to the completion call: the user Turn is recorded, the
\* history is compressed if it is long, the context is built
ChatUpTo(compression, summary, answered) ==
    /\ LastChatId(full_history) + 2 <= MaxChatTurns
    /\ LET message == MessageContent(LastChatId(full_history) + 1)
           text    == MessageContent(LastChatId(full_history) + 2)
           h       == Recorded(full_history, message)
           hc      == ChatHistory(h, max_recent_messages, compression)
           sc      == ChatSummaries(summaries, compression, summary)
       IN  /\ compression \in Compressions(h, max_recent_messages)
           /\ summaries' = sc
           /\ anchor' = IF compression = Summarized THEN Anchored(h)
                         ELSE anchor
           /\ chat' = [recorded    |-> Len(h),
                       compression |-> compression,
                       context     |-> Context(hc, sc, max_recent_messages)]
           /\ full_history' = IF answered THEN Appended(hc, "assistant", text)
                               ELSE hc
           /\ ret' = IF answered THEN text ELSE None
    /\ op' = "chat_with_claude"
    /\ UNCHANGED <<max_recent_messages, file, saved>>

\* a mutant: a failed completion call takes the whole call back
ChatFailed_RollsBack(compressions) ==
    /\ LastChatId(full_history) + 2 <= MaxChatTurns
    /\ op' = "chat_with_claude"
    /\ ret' = None
    /\ raised' = "APIError"
    /\ chat' = [recorded |-> Len(Recorded(full_history, "")),
                compression |-> None, context |-> <<>>]
    /\ UNCHANGED <<max_recent_messages, full_history, summaries, file, anchor,
                   saved>>

\* client.messages.create raises: the call ends there
ChatFailed(compressions) ==
    /\ \E compression \in compressions, summary \in SummaryTexts :
           ChatUpTo(compression, summary, FALSE)
    /\ raised' = "APIError"

\* the response is recorded and returned
ChatAnswered(compressions) ==
    /\ \E compression \in compressions, summary \in SummaryTexts :
           ChatUpTo(compression, summary, TRUE)
    /\ raised' = None

chat_with_claude ==
    \/ ChatAnswered({None, Skipped, Summarized, Failed})
    \/ ChatFailed({None, Skipped, Summarized, Failed})

\* memory = ConversationMemory(max_recent_messages=4), nothing loaded
ChatInit ==
    /\ max_recent_messages \in ChatRecent
    /\ full_history = <<>>
    /\ summaries = <<>>
    /\ file = NoFile
    /\ op = "__init__"
    /\ ret = None
    /\ raised = None
    /\ anchor = NoAnchor
    /\ saved = Snapshot(<<>>, <<>>)
    /\ chat = NoChat

ChatNext ==
    \/ chat_with_claude
    \/ clear

ChatSpec == ChatInit /\ [][ChatNext]_vars

\* the same loop with a summarizer that never fails
ReliableChat ==
    \/ ChatAnswered({None, Skipped, Summarized})
    \/ ChatFailed({None, Skipped, Summarized})

ReliableNext ==
    \/ ReliableChat
    \/ clear

ReliableSpec == ChatInit /\ [][ReliableNext]_vars

---------------------------------------------------------------------------
(* The claims.                                                             *)


\* s is t, or t cut after some entry
IsPrefix(s, t) == Len(s) <= Len(t) /\ SubSeq(t, 1, Len(s)) = s

\* the last n entries of lst, for n <= Len(lst)
Newest(lst, n) == SubSeq(lst, Len(lst) - n + 1, Len(lst))

\* C1: in every reachable state, whatever the length of the history, the
\* context get_context_for_api returns has at most max_recent_messages + 2
\* Turns.
C1_BoundedContext ==
    /\ Len(Context(full_history, summaries, max_recent_messages))
           <= max_recent_messages + 2
    /\ op = "get_context_for_api" => Len(ret) <= max_recent_messages + 2

\* a context of exactly max_recent_messages + 2 Turns from a longer history
C1_Witness ==
    /\ op = "get_context_for_api"
    /\ Len(full_history) > max_recent_messages + 2
    /\ Len(ret) = max_recent_messages + 2

\* C2: when the summarizer call fails, summarize_old_conversations leaves
\* the history and the summaries as they were and raises nothing.
C2_FailureIsNoOp ==
    [][op' = Failed =>
           /\ full_history' = full_history
           /\ summaries' = summaries
           /\ raised' = None]_vars

\* the summarizer failed on a history long enough to be compressed
C2_Witness ==
    /\ op = Failed
    /\ raised = None
    /\ Len(full_history) >= max_recent_messages + 4

\* C3 as stated: after any call of summarize_old_conversations the history
\* has 2 + max_recent_messages Turns, unless it had fewer than that before
\* the call, and then the call changes nothing.
C3_Original ==
    [][op' \in SummarizeOutcomes =>
           \/ Len(full_history') = 2 + max_recent_messages
           \/ /\ Len(full_history) < 2 + max_recent_messages
              /\ full_history' = full_history
              /\ summaries' = summaries]_vars

\* C3 as amended: after a call of summarize_old_conversations on a history
\* of at least max_recent_messages + 4 Turns whose summarizer call succeeds,
\* the history has 2 + max_recent_messages Turns; every other call (a
\* shorter history, or a summarizer that fails) changes nothing.
C3_CompressedLength ==
    [][op' \in SummarizeOutcomes =>
           IF Len(full_history) >= max_recent_messages + 4 /\ op' = Summarized
           THEN Len(full_history') = 2 + max_recent_messages
           ELSE /\ full_history' = full_history
                /\ summaries' = summaries]_vars

\* a compression has just cut the history to 2 + max_recent_messages Turns
C3_Witness ==
    /\ op = Summarized
    /\ anchor.passes = 1
    /\ Len(full_history) = 2 + max_recent_messages

\* C4: a compression whose summarizer call returns leaves the first 2 Turns
\* of the old history followed by its last max_recent_messages Turns, and
\* the old summaries with one summary appended.
C4_CompressKeepsEdges ==
    [][op' = Summarized =>
           /\ full_history' =
                  SubSeq(full_history, 1, 2)
                  \o Newest(full_history, max_recent_messages)
           /\ Len(summaries') = Len(summaries) + 1
           /\ IsPrefix(summaries, summaries')
           /\ Last(summaries') \in SummaryTexts]_vars

\* max_recent_messages = 2: a history of 4 Turns and 1 summary are left, and
\* Turns 3 and 4 were dropped
C4_Witness ==
    /\ op = Summarized
    /\ max_recent_messages = 2
    /\ Len(full_history) = 4
    /\ Len(summaries) = 1
    /\ full_history[3].content = MessageContent(5)

\* C5: once a compression has occurred, the first two Turns of the history
\* stay the two Turns that were first before that compression, through
\* every later add_message and summarize_old_conversations.
C5_AnchorRetained ==
    anchor.passes > 0 =>
        /\ Len(full_history) >= 2
        /\ SubSeq(full_history, 1, 2) = anchor.turns

\* a second compression of the same conversation has run
C5_Witness ==
    /\ op = Summarized
    /\ anchor.passes >= 2
    /\ SubSeq(full_history, 1, 2) = anchor.turns

\* C6: when the history has at most max_recent_messages Turns,
\* get_context_for_api returns exactly the history, with no summary pair
\* even when there are summaries, and changes neither list.
C6_ShortHistoryVerbatim ==
    [][op' = "get_context_for_api"
       /\ Len(full_history) <= max_recent_messages =>
           /\ ret' = full_history
           /\ full_history' = full_history
           /\ summaries' = summaries]_vars

\* a short, non-empty history was returned while the summaries were not empty
C6_Witness ==
    /\ op = "get_context_for_api"
    /\ full_history # <<>>
    /\ Len(full_history) <= max_recent_messages
    /\ summaries # <<>>
    /\ ret = full_history

\* C7: when the history has more than max_recent_messages Turns,
\* get_context_for_api returns its last max_recent_messages Turns, preceded
\* exactly when there are summaries by the user Turn carrying the last
\* summary and the assistant's acknowledgement; no Turn of the context
\* carries an earlier summary that differs from the last.
C7_WindowAfterLastSummary ==
    op = "get_context_for_api" /\ Len(full_history) > max_recent_messages =>
        /\ ret = (IF summaries = <<>> THEN <<>>
                  ELSE << [role |-> "user",
                           content |-> SummaryContent(Last(summaries))],
                          [role |-> "assistant",
                           content |->
                               "I remember our previous conversation."] >>)
                 \o Newest(full_history, max_recent_messages)
        /\ \A i \in 1 .. Len(summaries), j \in 1 .. Len(ret) :
               summaries[i] # Last(summaries) =>
                   ret[j].content # SummaryContent(summaries[i])

\* a context built from a log of two different summaries
C7_Witness ==
    /\ op = "get_context_for_api"
    /\ Len(full_history) > max_recent_messages
    /\ Len(summaries) = 2
    /\ summaries[1] # summaries[2]
    /\ ret[1].content = SummaryContent(summaries[2])

\* C8 as stated: every call other than summarize_old_conversations and clear
\* that changes the history lengthens it by exactly 1 and keeps the Turns
\* it had.  (Constructing a new ConversationMemory is not a call on it.)
C8_Original ==
    [][(/\ full_history' # full_history
        /\ op' \notin SummarizeOutcomes \cup {"clear", "__init__"}) =>
           /\ Len(full_history') = Len(full_history) + 1
           /\ IsPrefix(full_history, full_history')]_vars

\* C8 as amended: every call other than summarize_old_conversations, clear
\* and load that changes the history lengthens it by exactly 1 and keeps the
\* Turns it had; add_message leaves the old history with the new Turn at
\* its end, and the summaries as they were.
C8_AppendOnly ==
    [][/\ (/\ full_history' # full_history
           /\ op' \notin SummarizeOutcomes
                         \cup {"clear", "load", "__init__"}) =>
              /\ Len(full_history') = Len(full_history) + 1
              /\ IsPrefix(full_history, full_history')
       /\ (op' = "add_message") =>
              /\ full_history' =
                     full_history
                     \o << [role |->
                               MessageRole(LastMessageId(full_history) + 1),
                            content |->
                               MessageContent(LastMessageId(full_history) + 1)] >>
              /\ summaries' = summaries]_vars

\* a Turn was added to a compressed history
C8_Witness ==
    /\ op = "add_message"
    /\ summaries # <<>>
    /\ Len(full_history) = max_recent_messages + 3

\* C9 as stated: across every call other than clear, the summaries before
\* the call are a prefix of the summaries after it.
C9_Original ==
    [][op' \notin {"clear", "__init__"} => IsPrefix(summaries, summaries')]_vars

\* C9 as amended: across every call other than clear and load, the
\* summaries before the call are a prefix of the summaries after it.
C9_SummariesGrow ==
    [][op' \notin {"clear", "load", "__init__"} =>
           IsPrefix(summaries, summaries')]_vars

\* a summary was appended to a log that held one
C9_Witness ==
    /\ op = Summarized
    /\ Len(summaries) = 2

\* C10: load, on the file that save wrote from a non-empty state, returns
\* True and leaves the history and the summaries equal to the saved ones,
\* whatever the memory held before.
C10_RoundTrip ==
    [][(/\ op' = "load"
        /\ file.exists
        /\ saved.full_history # <<>> \/ saved.summaries # <<>>) =>
           /\ ret' = TRUE
           /\ raised' = None
           /\ full_history' = saved.full_history
           /\ summaries' = saved.summaries]_vars

\* a compressed conversation with its summary was loaded back
C10_Witness ==
    /\ op = "load"
    /\ ret = TRUE
    /\ saved.summaries # <<>>
    /\ Len(saved.full_history) >= 3
    /\ full_history = saved.full_history
    /\ summaries = saved.summaries

\* C11: load returns False, raises nothing and leaves the history and the
\* summaries unchanged when the file does not exist or cannot be read.
C11_MissingOrUnreadable ==
    [][(op' = "load" /\ (~file.exists \/ ~file.readable)) =>
           /\ raised' = None
           /\ ret' = FALSE
           /\ full_history' = full_history
           /\ summaries' = summaries]_vars

\* C12: when the completion call of chat_with_claude fails, the user Turn of
\* the call stays the last Turn of the history, no assistant Turn follows it,
\* and the history and the summaries are what the recording and the
\* compression step of the call made them.
C12_NoRollback ==
    [][(op' = "chat_with_claude" /\ raised' # None) =>
           LET message == MessageContent(LastChatId(full_history) + 1)
               before  == IF full_history = <<>>
                          THEN <<PrimingTurn, PrimingAck>>
                          ELSE full_history
               h       == Append(before, Turn("user", message))
           IN  /\ full_history' # <<>>
               /\ Last(full_history') = Turn("user", message)
               /\ IF chat'.compression = Summarized
                  THEN /\ full_history' =
                              SubSeq(h, 1, 2)
                              \o Newest(h, max_recent_messages)
                       /\ Len(summaries') = Len(summaries) + 1
                       /\ IsPrefix(summaries, summaries')
                  ELSE /\ full_history' = h
                       /\ summaries' = summaries]_vars

\* a completion call failed in a call that had compressed the history
C12_Witness ==
    /\ op = "chat_with_claude"
    /\ raised = "APIError"
    /\ chat.compression = Summarized

\* C13: summarize_old_conversations on a history of at most
\* max_recent_messages + 3 Turns (nothing, or a single Turn, between the
\* first two and the last max_recent_messages) returns without calling the
\* summarizer and changes neither list.
C13_TooShortToCompress ==
    [][(op' \in SummarizeOutcomes
        /\ Len(full_history) <= max_recent_messages + 3) =>
           /\ op' = Skipped
           /\ full_history' = full_history
           /\ summaries' = summaries]_vars

\* the call returned early on a history with a single Turn to summarize
C13_Witness ==
    /\ op = Skipped
    /\ Len(full_history) = max_recent_messages + 3

\* C14: in a call of chat_with_claude summarize_old_conversations is called
\* exactly when the history, the user Turn recorded, has more than 12 Turns,
\* whatever max_recent_messages is; with at most 12 Turns the summaries are
\* unchanged.
C14_CompressionTrigger ==
    [][op' = "chat_with_claude" =>
           LET n == IF full_history = <<>> THEN 3 ELSE Len(full_history) + 1
           IN  /\ chat'.compression # None <=> n > 12
               /\ n <= 12 => summaries' = summaries]_vars

\* with a window of 10 the call was made on 13 Turns, and returned early
C14_Witness ==
    /\ op = "chat_with_claude"
    /\ max_recent_messages = 10
    /\ chat.recorded = 13
    /\ chat.compression = Skipped

\* C15: with a summarizer that never fails, the history of a conversation
\* driven by chat_with_claude and clear never has more than
\* max(14, max_recent_messages + 5) Turns, neither between calls nor inside
\* one: 14 for max_recent_messages = 4.
C15_HistoryBound ==
    /\ Len(full_history) <= Max(14, max_recent_messages + 5)
    /\ chat.recorded <= Max(14, max_recent_messages + 5)

\* a call recorded its user Turn as the last Turn the bound allows
C15_Witness ==
    /\ op = "chat_with_claude"
    /\ chat.recorded = Max(14, max_recent_messages + 5)

\* C16: the last Turn of the context chat_with_claude passes to the
\* completion call is the user Turn of that call.
C16_ContextEndsWithMessage ==
    [][op' = "chat_with_claude" =>
           Last(chat'.context) =
               Turn("user", MessageContent(LastChatId(full_history) + 1))]_vars

\* a context that is a window of a history the summarizer failed to compress
C16_Witness ==
    /\ op = "chat_with_claude"
    /\ chat.compression = Failed
    /\ Len(chat.context) = max_recent_messages

\* C17: with max_recent_messages = 4, every context chat_with_claude passes
\* to the completion call begins with a Turn of role user.
C17_ContextStartsWithUser ==
    (op = "chat_with_claude" /\ max_recent_messages = 4) =>
        chat.context[1].role = "user"

\* C18: a history that is not empty begins with the priming exchange.
C18_PrimingKept ==
    full_history # <<>> =>
        /\ Len(full_history) >= 2
        /\ full_history[1] = PrimingTurn
        /\ full_history[2] = PrimingAck

\* the history was compressed twice
C18_Witness ==
    /\ op = "chat_with_claude"
    /\ chat.compression = Summarized
    /\ anchor.passes = 2

\* C19: when the compression succeeds in a call of chat_with_claude, the
\* context of that call has max_recent_messages + 2 Turns: the Turn carrying
\* the summary just appended to the summaries, the acknowledgement, and the
\* last max_recent_messages Turns of the history.
C19_ContextAfterCompression ==
    [][(op' = "chat_with_claude" /\ chat'.compression = Summarized) =>
           LET m       == max_recent_messages
               context == chat'.context
           IN  /\ Len(summaries') = Len(summaries) + 1
               /\ Len(context) = m + 2
               /\ context[1] = SummaryTurn(summaries'[Len(summaries')])
               /\ context[2] = AckTurn
               /\ \/ /\ raised' = None
                     /\ SubSeq(context, 3, m + 2) =
                            Newest(SubSeq(full_history', 1,
                                          Len(full_history') - 1), m)
                  \/ /\ raised' # None
                     /\ SubSeq(context, 3, m + 2) = Newest(full_history', m)]_vars

\* the second compression of a conversation, with a summary unlike the first
C19_Witness ==
    /\ op = "chat_with_claude"
    /\ chat.compression = Summarized
    /\ Len(summaries) = 2
    /\ summaries[1] # summaries[2]

\* C20: after any call of load, the history and the summaries are both the
\* stored ones or both unchanged.
C20_AllOrNothing ==
    [][op' = "load" =>
           \/ /\ full_history' = full_history
              /\ summaries' = summaries
           \/ /\ Opens(file)
              /\ Complete(file)
              /\ full_history' = Unpickle(file.bytes)["full_history"]
              /\ summaries' = Unpickle(file.bytes)["summaries"]]_vars

====
